---- MODULE Spec2Model ----
(***************************************************************************)
(* The customer_support ticket pipeline: config.ts (createConfig) and      *)
(* server.ts (buildEmailBody, sendSupportEmail, buildInputSchema and the   *)
(* customer_support handler registered by createServer).                   *)
(*                                                                         *)
(* A JavaScript string is a sequence of atoms (an atom is one or more      *)
(* characters that the model never splits); "" is << >>.  A JavaScript     *)
(* object is a function from its own property names; a property that is    *)
(* undefined is a name outside the function's domain.                      *)
(***************************************************************************)
EXTENDS Integers, Sequences, FiniteSets, TLC

\* Number of customer_support calls a server instance receives.
MaxSubs == 2
\* Number of parts a subject template is assembled from.
MaxParts == 3
\* Length of a customFields list.
MaxFields == 2

VARIABLES
  defaultConfig,    \* config.ts: the module-level defaultConfig object
  configOverrides,  \* createServer's argument
  config,           \* createServer: const config = createConfig(configOverrides)
  inputSchema,      \* createServer: const inputSchema = buildInputSchema(config)
  transport,        \* main.ts: the transport the server is connected to
  pc,               \* per call: idle, awaitSend, settled, done
  request,          \* per call: the arguments the caller sent
  args,             \* per call: the validated arguments the handler received
  result,           \* per call: how the promise of sendSupportEmail settled
  response,         \* per call: the CallToolResult handed back
  trace,            \* per call: the functions and stubs the call has entered
  stdout,           \* process.stdout, in write order
  httpOut,          \* HTTP response bodies, in write order
  outbox,           \* mails handed to transporter.sendMail, in call order
  now,              \* the server's clock
  form,             \* mcp-app.tsx: the state of the SupportForm component
  awaiting          \* mcp-app.tsx: the calls handleSubmit is awaiting

vars == <<defaultConfig, configOverrides, config, inputSchema, transport, pc,
          request, args, result, response, trace, stdout, httpOut, outbox, now,
          form, awaiting>>

Subs == 1..MaxSubs

----------------------------------------------------------------------------
\* Strings and objects

EmptyObj == [k \in {} |-> <<>>]

Has(obj, k) == k \in DOMAIN obj

\* { ...a, ...b }
Merge(a, b) == [k \in DOMAIN a \cup DOMAIN b |-> IF k \in DOMAIN b THEN b[k] ELSE a[k]]

\* obj.k when it is an object, and nothing to spread when it is undefined
Sub(obj, k) == IF Has(obj, k) THEN obj[k] ELSE EmptyObj

\* `${obj.k}`, and the string a replaceValue is converted to
Str(obj, k) == IF Has(obj, k) THEN obj[k] ELSE <<"undefined">>

\* if (obj.k): a string is truthy when it is not empty
Truthy(obj, k) == Has(obj, k) /\ obj[k] # <<>>

\* String.prototype.indexOf, 1-based; 0 when pat does not occur
IndexOf(s, pat) ==
  LET hits == {i \in 1..(Len(s) - Len(pat) + 1) : SubSeq(s, i, i + Len(pat) - 1) = pat}
  IN IF hits = {} THEN 0 ELSE CHOOSE i \in hits : \A j \in hits : i <= j

Contains(s, pat) == IndexOf(s, pat) # 0

RECURSIVE GetSubstitution(_, _, _, _)
\* The replacement text of String.prototype.replace for a string pattern (no
\* captures): $$ is $, $& the match, $` the text before it, $' the text after.
GetSubstitution(matched, before, after, repl) ==
  IF repl = <<>> THEN <<>>
  ELSE IF Head(repl) = "$" /\ Len(repl) >= 2 /\ repl[2] \in {"$", "&", "`", "'"}
    THEN (CASE repl[2] = "$" -> <<"$">>
            [] repl[2] = "&" -> matched
            [] repl[2] = "`" -> before
            [] repl[2] = "'" -> after)
         \o GetSubstitution(matched, before, after, SubSeq(repl, 3, Len(repl)))
    ELSE <<Head(repl)>> \o GetSubstitution(matched, before, after, Tail(repl))

\* s.replace(pat, repl) with a string pattern: the first occurrence only
Replace(s, pat, repl) ==
  LET i == IndexOf(s, pat)
  IN IF i = 0 THEN s
     ELSE LET before == SubSeq(s, 1, i - 1)
              after == SubSeq(s, i + Len(pat), Len(s))
          IN before \o GetSubstitution(pat, before, after, repl) \o after

RECURSIVE Join(_, _)
\* Array.prototype.join
Join(lines, sep) ==
  IF lines = <<>> THEN <<>>
  ELSE IF Len(lines) = 1 THEN lines[1]
  ELSE lines[1] \o sep \o Join(Tail(lines), sep)

RECURSIVE Count(_, _)
Count(seq, x) ==
  IF seq = <<>> THEN 0
  ELSE (IF Head(seq) = x THEN 1 ELSE 0) + Count(Tail(seq), x)

----------------------------------------------------------------------------
\* config.ts

NameToken == <<"{{", "name", "}}">>
IssueToken == <<"{{", "issue", "}}">>

Field(key, label, type, required) ==
  [key |-> key, label |-> label, type |-> type, placeholder |-> <<>>, required |-> required]

EmailField == Field("email", <<"Email Address">>, "email", FALSE)

\* process.env.X ?? fallback
EnvOr(e, k, fallback) == IF Has(e, k) THEN e[k] ELSE fallback

\* export const defaultConfig, evaluated once when the module is loaded
DefaultConfig(e) ==
  [brand |-> [name |-> <<"Customer Support">>,
              primaryColor |-> <<"#2563eb">>,
              secondaryColor |-> <<"#1e40af">>,
              tagline |-> <<"We're here to help">>],
   smtp |-> [host |-> EnvOr(e, "SMTP_HOST", <<"smtp.gmail.com">>),
             port |-> 587,
             secure |-> FALSE,
             auth |-> [user |-> EnvOr(e, "SMTP_USER", <<>>),
                       pass |-> EnvOr(e, "SMTP_PASS", <<>>)]],
   supportEmail |-> EnvOr(e, "SUPPORT_EMAIL", <<"support@example.com">>),
   emailSubjectTemplate |->
     <<"Support Request from ">> \o NameToken \o <<": ">> \o IssueToken,
   customFields |-> <<EmailField>>,
   priorities |-> <<"Low", "Medium", "High", "Urgent">>,
   categories |-> <<"General Inquiry", "Technical Support", "Billing",
                    "Feature Request", "Bug Report">>]

\* overrides.k ?? fallback
Coalesce(obj, k, fallback) == IF Has(obj, k) THEN obj[k] ELSE fallback

\* { ...defaultConfig, ...overrides } alone: nested objects replaced wholesale
createConfigShallow(defaults, overrides) == Merge(defaults, overrides)

createConfig(defaults, overrides) ==
  Merge(Merge(defaults, overrides),
        [brand |-> Merge(defaults.brand, Sub(overrides, "brand")),
         smtp |-> Merge(Merge(defaults.smtp, Sub(overrides, "smtp")),
                        [auth |-> Merge(defaults.smtp.auth,
                                        Sub(Sub(overrides, "smtp"), "auth"))]),
         customFields |-> Coalesce(overrides, "customFields", defaults.customFields),
         priorities |-> Coalesce(overrides, "priorities", defaults.priorities),
         categories |-> Coalesce(overrides, "categories", defaults.categories)])

----------------------------------------------------------------------------
\* server.ts: buildEmailBody, the subject line, buildInputSchema

RECURSIVE CustomLinesAll(_, _)
\* buildEmailBody without the if (fields[field.key]) test
CustomLinesAll(fields, customFields) ==
  IF customFields = <<>> THEN <<>>
  ELSE LET field == Head(customFields)
       IN << field.label \o <<": ">> \o (IF Truthy(fields, field.key) THEN fields[field.key] ELSE <<>>) >>
          \o CustomLinesAll(fields, Tail(customFields))

RECURSIVE CustomLines(_, _)
\* for (const field of config.customFields) if (fields[field.key]) lines.push(...)
CustomLines(fields, customFields) ==
  IF customFields = <<>> THEN <<>>
  ELSE LET field == Head(customFields)
       IN (IF Truthy(fields, field.key)
             THEN << field.label \o <<": ">> \o fields[field.key] >>
             ELSE <<>>)
          \o CustomLines(fields, Tail(customFields))

buildEmailBody(fields, cfg) ==
  LET lines == << <<"New support ticket received via ">> \o cfg.brand.name,
                  <<>>,
                  <<"--- Ticket Details ---">>,
                  <<>>,
                  <<"Name: ">> \o Str(fields, "name"),
                  <<"Issue: ">> \o Str(fields, "issue") >>
               \o (IF Truthy(fields, "priority")
                     THEN << <<"Priority: ">> \o fields["priority"] >> ELSE <<>>)
               \o (IF Truthy(fields, "category")
                     THEN << <<"Category: ">> \o fields["category"] >> ELSE <<>>)
               \o CustomLines(fields, cfg.customFields)
               \o << <<>>, <<"--- End of Ticket ---">> >>
  IN Join(lines, <<"\n">>)

\* config.emailSubjectTemplate.replace("{{name}}", fields.name)
\*                            .replace("{{issue}}", fields.issue)
Subject(fields, cfg) ==
  Replace(Replace(cfg.emailSubjectTemplate, NameToken, Str(fields, "name")),
          IssueToken, Str(fields, "issue"))

\* z.string().describe(d), or z.string().optional().describe(d)
ZString(required, description) ==
  [type |-> "string", required |-> required, description |-> description]

\* shape[key] = schema
Put(shape, key, schema) ==
  [k \in DOMAIN shape \cup {key} |-> IF k = key THEN schema ELSE shape[k]]

RECURSIVE AddCustomFields(_, _)
\* for (const field of config.customFields) shape[field.key] = ...
AddCustomFields(shape, customFields) ==
  IF customFields = <<>> THEN shape
  ELSE LET field == Head(customFields)
       IN AddCustomFields(Put(shape, field.key, ZString(field.required, field.label)),
                          Tail(customFields))

buildInputSchema(cfg) ==
  AddCustomFields(
    [name |-> ZString(TRUE, <<"Full name of the customer">>),
     issue |-> ZString(TRUE, <<"Description of the customer's issue">>),
     priority |-> ZString(FALSE, <<"Ticket priority level (">>
                                 \o Join([i \in DOMAIN cfg.priorities |-> <<cfg.priorities[i]>>], <<", ">>)
                                 \o <<")">>),
     category |-> ZString(FALSE, <<"Issue category (">>
                                 \o Join([i \in DOMAIN cfg.categories |-> <<cfg.categories[i]>>], <<", ">>)
                                 \o <<")">>)],
    cfg.customFields)

\* The SDK parses the call's arguments with z.object(inputSchema): a key the shape
\* requires must be present.
Valid(shape, raw) == \A k \in DOMAIN shape : shape[k].required => Has(raw, k)

\* The parsed arguments keep the keys of the shape.
Parse(shape, raw) == [k \in DOMAIN raw \cap DOMAIN shape |-> raw[k]]

----------------------------------------------------------------------------
\* server.ts: sendSupportEmail and the customer_support handler

\* (the source's message has an em dash where this one has " - ")
RecordedMsg ==
  <<"Ticket recorded (email preview logged - configure SMTP credentials to enable delivery).">>
SentMsg == <<"Support ticket sent successfully.">>

NoError == [instanceofError |-> FALSE, message |-> <<>>, string |-> <<>>]
Pending == [state |-> "pending", success |-> FALSE, message |-> <<>>, error |-> NoError]
Fulfilled(msg) == [state |-> "fulfilled", success |-> TRUE, message |-> msg, error |-> NoError]
Rejected(err) == [state |-> "rejected", success |-> FALSE, message |-> <<>>, error |-> err]

NoResponse == [isError |-> FALSE, status |-> "none", message |-> <<>>, ticket |-> EmptyObj]

\* && where the source has ||
UnconfiguredBoth(cfg) == cfg.smtp.auth.user = <<>> /\ cfg.smtp.auth.pass = <<>>

\* if (!config.smtp.auth.user || !config.smtp.auth.pass)
Unconfigured(cfg) == cfg.smtp.auth.user = <<>> \/ cfg.smtp.auth.pass = <<>>

\* The five console.log calls of the preview, in order.
PreviewLines(fields, cfg) ==
  << <<"=== EMAIL PREVIEW (SMTP not configured) ===">>,
     <<"To: ">> \o cfg.supportEmail,
     <<"Subject: ">> \o Subject(fields, cfg),
     buildEmailBody(fields, cfg),
     <<"============================================">> >>

ConsoleLog(s, lines) ==
  [i \in DOMAIN lines |->
     [kind |-> "console.log", sub |-> s, text |-> lines[i], result |-> NoResponse]]

\* nodemailer.createTransport({ host, port, secure, auth })
TransportOptions(cfg) ==
  [host |-> cfg.smtp.host, port |-> cfg.smtp.port, secure |-> cfg.smtp.secure,
   auth |-> cfg.smtp.auth]

\* sendMail with from and to exchanged
MailToSender(fields, cfg) ==
  Merge([from |-> cfg.supportEmail,
         to |-> cfg.smtp.auth.user,
         subject |-> Subject(fields, cfg),
         text |-> buildEmailBody(fields, cfg)],
        IF Truthy(fields, "email") THEN [replyTo |-> fields["email"]] ELSE EmptyObj)

\* The argument of transporter.sendMail; replyTo: fields.email || undefined
Mail(fields, cfg) ==
  Merge([from |-> cfg.smtp.auth.user,
         to |-> cfg.supportEmail,
         subject |-> Subject(fields, cfg),
         text |-> buildEmailBody(fields, cfg)],
        IF Truthy(fields, "email") THEN [replyTo |-> fields["email"]] ELSE EmptyObj)

\* new Date().toISOString()
ToISOString(t) == <<"ISO-8601", t>>

\* The ticket echo as JSON.stringify writes it: an undefined property is left out.
Ticket(fields, t) ==
  Merge([k \in {"name", "issue"} \cap DOMAIN fields |-> fields[k]],
        [priority |-> Coalesce(fields, "priority", <<"Medium">>),
         category |-> Coalesce(fields, "category", <<"General Inquiry">>),
         timestamp |-> ToISOString(t)])

\* || where the source has ??
HandlerReturnOr(res, fields, t) ==
  [isError |-> FALSE,
   status |-> IF res.success THEN "ok" ELSE "error",
   message |-> res.message,
   ticket |-> Merge(Ticket(fields, t),
                    [priority |-> IF Truthy(fields, "priority")
                                    THEN fields["priority"] ELSE <<"Medium">>,
                     category |-> IF Truthy(fields, "category")
                                    THEN fields["category"] ELSE <<"General Inquiry">>])]

\* The handler's return after await sendSupportEmail(...) fulfilled.
HandlerReturn(res, fields, t) ==
  [isError |-> FALSE,
   status |-> IF res.success THEN "ok" ELSE "error",
   message |-> res.message,
   ticket |-> Ticket(fields, t)]

\* String(error) for every error, where the source takes an Error's message
HandlerCatchString(error) ==
  [isError |-> TRUE, status |-> "error", message |-> error.string, ticket |-> EmptyObj]

\* The handler's catch block.
HandlerCatch(error) ==
  [isError |-> TRUE,
   status |-> "error",
   message |-> IF error.instanceofError THEN error.message ELSE error.string,
   ticket |-> EmptyObj]

\* The error result for arguments the input schema rejects.
ValidationError ==
  [isError |-> TRUE, status |-> "error", message |-> <<"Invalid arguments">>,
   ticket |-> EmptyObj]

\* Writing a response on the connected transport.
Respond(s, r) ==
  LET entry == [kind |-> "protocol", sub |-> s, text |-> <<>>, result |-> r]
  IN IF transport = "stdio"
       THEN stdout' = Append(stdout, entry) /\ UNCHANGED httpOut
       ELSE httpOut' = Append(httpOut, entry) /\ UNCHANGED stdout

\* A handler that stores the rendered subject back into the shared config
ConfigSubjectRendered(cfg, fields) == [cfg EXCEPT !.emailSubjectTemplate = Subject(fields, cfg)]

\* The closure's config after a submission: the handler and sendSupportEmail
\* read cfg (replace, filter, map, join all return new values) and assign
\* nothing to it.
ConfigAfterSend(cfg, fields) == cfg

\* sendSupportEmail up to its return (credentials missing) or to its await.
Dispatch(s, fields) ==
  IF Unconfigured(config)
    THEN /\ trace' = [trace EXCEPT ![s] = @ \o <<"sendSupportEmail", "buildEmailBody", "console.log">>]
         /\ stdout' = stdout \o ConsoleLog(s, PreviewLines(fields, config))
         /\ result' = [result EXCEPT ![s] = Fulfilled(RecordedMsg)]
         /\ pc' = [pc EXCEPT ![s] = "settled"]
         /\ UNCHANGED outbox
    ELSE /\ trace' = [trace EXCEPT ![s] = @ \o <<"sendSupportEmail", "createTransport", "buildEmailBody", "sendMail">>]
         /\ outbox' = Append(outbox, [sub |-> s, options |-> TransportOptions(config),
                                      mail |-> Mail(fields, config)])
         /\ result' = [result EXCEPT ![s] = Pending]
         /\ pc' = [pc EXCEPT ![s] = "awaitSend"]
         /\ UNCHANGED stdout

\* The server receives a customer_support call with arguments raw.
Receive(s, raw) ==
  /\ pc[s] = "idle"
  /\ request' = [request EXCEPT ![s] = raw]
  /\ IF Valid(inputSchema, raw)
       THEN /\ args' = [args EXCEPT ![s] = Parse(inputSchema, raw)]
            /\ Dispatch(s, Parse(inputSchema, raw))
            /\ config' = ConfigAfterSend(config, Parse(inputSchema, raw))
            /\ UNCHANGED <<response, httpOut>>
       ELSE /\ response' = [response EXCEPT ![s] = ValidationError]
            /\ Respond(s, ValidationError)
            /\ pc' = [pc EXCEPT ![s] = "done"]
            /\ UNCHANGED <<args, result, trace, outbox, config>>
  /\ UNCHANGED <<defaultConfig, configOverrides, inputSchema, transport, now>>

\* A customer_support call from the model, the form untouched.
Call(s, raw) == Receive(s, raw) /\ UNCHANGED <<form, awaiting>>

\* await transporter.sendMail(...) fulfils; sendSupportEmail returns.
SendSucceeded(s) ==
  /\ result' = [result EXCEPT ![s] = Fulfilled(SentMsg)]
  /\ trace' = [trace EXCEPT ![s] = Append(@, "sendMail:ok")]
  /\ pc' = [pc EXCEPT ![s] = "settled"]
  /\ UNCHANGED <<stdout, outbox>>

\* A sendSupportEmail that calls sendMail again when it rejects
SendFailedRetry(s, err) ==
  /\ trace' = [trace EXCEPT ![s] = @ \o <<"sendMail:failed", "sendMail">>]
  /\ outbox' = Append(outbox, [sub |-> s, options |-> TransportOptions(config),
                               mail |-> Mail(args[s], config)])
  /\ UNCHANGED <<result, pc, stdout>>

\* A sendSupportEmail that logs the preview when sendMail rejects
SendFailedFallback(s, err) ==
  /\ trace' = [trace EXCEPT ![s] = @ \o <<"sendMail:failed", "console.log">>]
  /\ stdout' = stdout \o ConsoleLog(s, PreviewLines(args[s], config))
  /\ result' = [result EXCEPT ![s] = Fulfilled(RecordedMsg)]
  /\ pc' = [pc EXCEPT ![s] = "settled"]
  /\ UNCHANGED outbox

\* A sendSupportEmail that catches the rejection and resolves with success: false
SendFailedResolves(s, err) ==
  /\ result' = [result EXCEPT ![s] = [state |-> "fulfilled", success |-> FALSE,
                                      message |-> err.string, error |-> NoError]]
  /\ trace' = [trace EXCEPT ![s] = Append(@, "sendMail:failed")]
  /\ pc' = [pc EXCEPT ![s] = "settled"]
  /\ UNCHANGED <<stdout, outbox>>

\* await transporter.sendMail(...) rejects; sendSupportEmail throws err.
SendFailed(s, err) ==
  /\ result' = [result EXCEPT ![s] = Rejected(err)]
  /\ trace' = [trace EXCEPT ![s] = Append(@, "sendMail:failed")]
  /\ pc' = [pc EXCEPT ![s] = "settled"]
  /\ UNCHANGED <<stdout, outbox>>

TransportSucceeds(s) ==
  /\ pc[s] = "awaitSend"
  /\ SendSucceeded(s)
  /\ UNCHANGED <<defaultConfig, configOverrides, config, inputSchema, transport,
                 request, args, response, httpOut, now, form, awaiting>>

TransportFails(s, err) ==
  /\ pc[s] = "awaitSend"
  /\ SendFailed(s, err)
  /\ UNCHANGED <<defaultConfig, configOverrides, config, inputSchema, transport,
                 request, args, response, httpOut, now, form, awaiting>>

\* The handler resumes after the await and returns its CallToolResult.
Return(s) ==
  /\ pc[s] = "settled"
  /\ LET r == IF result[s].state = "fulfilled"
                THEN HandlerReturn(result[s], args[s], now)
                ELSE HandlerCatch(result[s].error)
     IN response' = [response EXCEPT ![s] = r] /\ Respond(s, r)
  /\ now' = now + 1
  /\ pc' = [pc EXCEPT ![s] = "done"]
  /\ UNCHANGED <<defaultConfig, configOverrides, config, inputSchema, transport,
                 request, args, result, trace, outbox, form, awaiting>>

----------------------------------------------------------------------------
\* mcp-app.tsx: the support form

server == <<defaultConfig, configOverrides, config, inputSchema, transport, pc,
            request, args, result, response, trace, stdout, httpOut, outbox, now>>

DEFAULT_PRIORITIES == <<"Low", "Medium", "High", "Urgent">>

DEFAULT_CATEGORIES ==
  <<"General Inquiry", "Technical Support", "Billing", "Feature Request", "Bug Report">>

DEFAULT_CUSTOM_FIELDS == <<Field("email", <<"Email Address">>, "email", FALSE)>>

\* SupportForm: const priorities = DEFAULT_PRIORITIES, and so on
priorities == DEFAULT_PRIORITIES

categories == DEFAULT_CATEGORIES

customFields == DEFAULT_CUSTOM_FIELDS

\* useState<TicketResult | null>(null)
Null == EmptyObj

\* The useState initial values
InitialForm ==
  [name |-> <<>>, issue |-> <<>>, priority |-> <<"Medium">>,
   category |-> <<"General Inquiry">>, customValues |-> EmptyObj,
   submitting |-> FALSE, result |-> Null]

\* result.content?.find((c) => c.type === "text")
HasText(callResult) == callResult.status # "none"

\* The text is the handler's JSON.stringify of its payload; the text of a
\* schema rejection is a plain message.
IsJson(callResult) == callResult # ValidationError

\* JSON.parse of the handler's text: status, message, and the ticket when the
\* handler put one in.
JsonParse(callResult) ==
  Merge([status |-> callResult.status, message |-> callResult.message],
        IF callResult.ticket = EmptyObj THEN EmptyObj ELSE [ticket |-> callResult.ticket])

parseToolResult(callResult) ==
  IF ~HasText(callResult)
    THEN [status |-> "error", message |-> <<"No response from server.">>]
    ELSE IF ~IsJson(callResult)
      THEN [status |-> "error", message |-> <<"Invalid server response.">>]
      ELSE JsonParse(callResult)

\* result?.status === "ok" && result.ticket: the confirmation replaces the form
ShowsTicket(f) ==
  /\ Has(f.result, "status")
  /\ f.result.status = "ok"
  /\ Has(f.result, "ticket")

\* { name, issue, priority, category, ...customValues }
Arguments(f) ==
  Merge([name |-> f.name, issue |-> f.issue, priority |-> f.priority,
         category |-> f.category], f.customValues)

\* The form's own validation: name, issue and every required custom field filled
FormValid(f) ==
  /\ f.name # <<>>
  /\ f.issue # <<>>
  /\ \A i \in DOMAIN customFields :
       customFields[i].required => Truthy(f.customValues, customFields[i].key)

\* A submit button that stays enabled while a call is in flight
SubmitAlwaysEnabled(f) == FALSE

\* <button type="submit" disabled={submitting}>
SubmitDisabled(f) == f.submitting

\* The call slot the next callServerTool takes
NextCall == CHOOSE s \in Subs : pc[s] = "idle" /\ \A t \in Subs : pc[t] = "idle" => s <= t

setName(v) ==
  /\ ~ShowsTicket(form)
  /\ form' = [form EXCEPT !.name = v]
  /\ UNCHANGED <<server, awaiting>>

setIssue(v) ==
  /\ ~ShowsTicket(form)
  /\ form' = [form EXCEPT !.issue = v]
  /\ UNCHANGED <<server, awaiting>>

setPriority(v) ==
  /\ ~ShowsTicket(form)
  /\ \E i \in DOMAIN priorities : <<priorities[i]>> = v
  /\ form' = [form EXCEPT !.priority = v]
  /\ UNCHANGED <<server, awaiting>>

setCategory(v) ==
  /\ ~ShowsTicket(form)
  /\ \E i \in DOMAIN categories : <<categories[i]>> = v
  /\ form' = [form EXCEPT !.category = v]
  /\ UNCHANGED <<server, awaiting>>

\* setCustomValues((prev) => ({ ...prev, [field.key]: e.target.value }))
setCustomValues(key, v) ==
  /\ ~ShowsTicket(form)
  /\ \E i \in DOMAIN customFields : customFields[i].key = key
  /\ form' = [form EXCEPT !.customValues = Merge(@, [k \in {key} |-> v])]
  /\ UNCHANGED <<server, awaiting>>

\* handleSubmit up to its await; the server takes the call.
handleSubmit ==
  /\ ~ShowsTicket(form)
  /\ ~SubmitDisabled(form)
  /\ FormValid(form)
  /\ \E s \in Subs : pc[s] = "idle"
  /\ form' = [form EXCEPT !.submitting = TRUE, !.result = Null]
  /\ awaiting' = awaiting \cup {NextCall}
  /\ Receive(NextCall, Arguments(form))

\* callServerTool resolves: setResult(parseToolResult(callResult)), then finally.
callServerToolReturns(s) ==
  /\ s \in awaiting
  /\ pc[s] = "done"
  /\ form' = [form EXCEPT !.result = parseToolResult(response[s]), !.submitting = FALSE]
  /\ awaiting' = awaiting \ {s}
  /\ UNCHANGED server

\* callServerTool rejects with err: the catch block, then finally.
callServerToolThrows(s, err) ==
  /\ s \in awaiting
  /\ form' = [form EXCEPT
                !.result = [status |-> "error",
                            message |-> IF err.instanceofError
                                          THEN err.message
                                          ELSE <<"Submission failed.">>],
                !.submitting = FALSE]
  /\ awaiting' = awaiting \ {s}
  /\ UNCHANGED server

\* "Submit Another Ticket"
handleReset ==
  /\ ShowsTicket(form)
  /\ form' = [InitialForm EXCEPT !.submitting = form.submitting]
  /\ UNCHANGED <<server, awaiting>>

\* app.ontoolresult: the host hands over the result of a finished call.
ontoolresult(s) ==
  /\ pc[s] = "done"
  /\ form' = [form EXCEPT !.result = parseToolResult(response[s])]
  /\ UNCHANGED <<server, awaiting>>

----------------------------------------------------------------------------
\* Inputs

SeqsUpTo(S, n) == UNION {[1..k -> S] : k \in 0..n}

BotUser == <<"bot@acme.test">>

\* process.env: nothing set, or the SMTP credentials set
Envs == {EmptyObj, [SMTP_USER |-> BotUser, SMTP_PASS |-> <<"secret">>]}

Transports == {"http", "stdio"}

\* What transporter.sendMail rejects with: an Error, or a value that is not one.
Errors ==
  {[instanceofError |-> TRUE, message |-> <<"connect ECONNREFUSED">>,
    string |-> <<"Error: ", "connect ECONNREFUSED">>],
   [instanceofError |-> FALSE, message |-> <<>>, string |-> <<"socket closed">>]}

RequiredEmail == Field("email", <<"Email">>, "email", TRUE)
PhoneField == Field("phone", <<"Phone">>, "tel", FALSE)
NicknameField == Field("name", <<"Nickname">>, "text", FALSE)

\* createServer's overrides: none, one credential only, the README's custom
\* fields, a custom field keyed like a fixed one, the README's embedding example.
Overrides ==
  {EmptyObj,
   [smtp |-> [auth |-> [user |-> BotUser]]],
   [customFields |-> <<RequiredEmail, PhoneField>>],
   [customFields |-> <<NicknameField>>],
   [brand |-> [name |-> <<"My Company Support">>],
    supportEmail |-> <<"help@mycompany.com">>]}

Ada == <<"Ada">>
LoginBroken == <<"Login broken">>

TicketInputs ==
  {[name |-> Ada, issue |-> LoginBroken],
   [name |-> Ada],
   [issue |-> LoginBroken],
   [name |-> Ada, issue |-> LoginBroken, priority |-> <<"High">>,
    category |-> <<"Billing">>, email |-> <<"ada@example.com">>],
   [name |-> Ada, issue |-> LoginBroken, priority |-> <<>>, category |-> <<>>,
    email |-> <<>>]}

\* Every object with keys among those of choices, each key's value one of its choices
Objects(choices) ==
  UNION {[ks -> UNION {choices[k] : k \in ks}] : ks \in SUBSET DOMAIN choices}

ObjectsOf(choices) ==
  {o \in Objects(choices) : \A k \in DOMAIN o : o[k] \in choices[k]}

----------------------------------------------------------------------------
\* The server: any interleaving of MaxSubs calls

\* The module's defaultConfig object once createConfig has returned: the
\* spreads copy its properties into new objects and leave it as it was.
DefaultsAfterCreate(defaults, overrides) == defaults

Boot(e, ov, t) ==
  /\ defaultConfig = DefaultsAfterCreate(DefaultConfig(e), ov)
  /\ configOverrides = ov
  /\ config = createConfig(DefaultConfig(e), ov)
  /\ inputSchema = buildInputSchema(createConfig(DefaultConfig(e), ov))
  /\ transport = t
  /\ pc = [s \in Subs |-> "idle"]
  /\ request = [s \in Subs |-> EmptyObj]
  /\ args = [s \in Subs |-> EmptyObj]
  /\ result = [s \in Subs |-> Pending]
  /\ response = [s \in Subs |-> NoResponse]
  /\ trace = [s \in Subs |-> <<>>]
  /\ stdout = <<>>
  /\ httpOut = <<>>
  /\ outbox = <<>>
  /\ now = 0
  /\ form = InitialForm
  /\ awaiting = {}

Init == \E e \in Envs, ov \in Overrides, t \in Transports : Boot(e, ov, t)

Next ==
  \E s \in Subs :
    \/ \E raw \in TicketInputs : Call(s, raw)
    \/ TransportSucceeds(s)
    \/ \E err \in Errors : TransportFails(s, err)
    \/ Return(s)

Spec == Init /\ [][Next]_vars

----------------------------------------------------------------------------
\* One call on a server whose subject template is any assembly of template parts

TemplateParts == {NameToken, IssueToken, <<"Re: ">>, <<"{{", "name">>}

Templates == {Join(parts, <<>>) : parts \in SeqsUpTo(TemplateParts, MaxParts)}

SubjectInputs ==
  {[name |-> n, issue |-> i] : n \in {Ada, <<"Grace">>},
                               i \in {LoginBroken, <<"Refund">>}}

InitSubject ==
  \E e \in Envs, tpl \in Templates : Boot(e, [emailSubjectTemplate |-> tpl], "http")

NextSubject ==
  \/ \E raw \in SubjectInputs : Call(1, raw)
  \/ TransportSucceeds(1)
  \/ \E err \in Errors : TransportFails(1, err)
  \/ Return(1)

SpecSubject == InitSubject /\ [][NextSubject]_vars

----------------------------------------------------------------------------
\* One call on a server whose customFields is any list of field specs

FieldSpecs == {EmailField, RequiredEmail, PhoneField, NicknameField}

FieldLists == SeqsUpTo(FieldSpecs, MaxFields)

ComposeInputs ==
  ObjectsOf([name |-> {Ada},
             issue |-> {LoginBroken},
             priority |-> {<<>>, <<"High">>},
             category |-> {<<"Billing">>},
             email |-> {<<>>, <<"ada@example.com">>},
             phone |-> {<<"555-0100">>}])

InitCompose ==
  \E e \in Envs, cf \in FieldLists : Boot(e, [customFields |-> cf], "http")

NextCompose ==
  \/ \E raw \in ComposeInputs : Call(1, raw)
  \/ TransportSucceeds(1)
  \/ \E err \in Errors : TransportFails(1, err)
  \/ Return(1)

SpecCompose == InitCompose /\ [][NextCompose]_vars

----------------------------------------------------------------------------
\* Properties

Entered(s, f) == Count(trace[s], f) > 0

\* The mails call s handed to transporter.sendMail
MailsOf(s) == {i \in DOMAIN outbox : outbox[i].sub = s}

\* The lines call s wrote with console.log
LoggedBy(s) == {i \in DOMAIN stdout : stdout[i].kind = "console.log" /\ stdout[i].sub = s}

\* C1: a call whose sendSupportEmail threw ends in a returned error payload,
\* flagged isError, whose message is the thrown Error's message (String(value)
\* for a thrown value that is no Error); no call ends without a payload.
C1_HandlerNeverThrows ==
  \A s \in Subs :
    pc[s] = "done" =>
      /\ response[s].status \in {"ok", "error"}
      /\ result[s].state = "rejected" =>
           /\ response[s].isError
           /\ response[s].status = "error"
           /\ response[s].message = (IF result[s].error.instanceofError
                                       THEN result[s].error.message
                                       ELSE result[s].error.string)

C1_Witness ==
  \E s \in Subs :
    /\ pc[s] = "done"
    /\ result[s].state = "rejected"
    /\ result[s].error.instanceofError
    /\ response[s].message = <<"connect ECONNREFUSED">>

\* C2: with smtp.auth.user or smtp.auth.pass empty, no call creates a transport
\* or calls sendMail, and every dispatched call is answered success with the
\* 'Ticket recorded' message.
C2_UnconfiguredNeverSends ==
  (config.smtp.auth.user = <<>> \/ config.smtp.auth.pass = <<>>) =>
    /\ outbox = <<>>
    /\ \A s \in Subs :
         /\ ~Entered(s, "createTransport")
         /\ ~Entered(s, "sendMail")
         /\ Entered(s, "sendSupportEmail") => result[s] = Fulfilled(RecordedMsg)

\* Only the password is missing, and a call has been answered.
C2_Witness ==
  /\ config.smtp.auth.user # <<>>
  /\ config.smtp.auth.pass = <<>>
  /\ \E s \in Subs : pc[s] = "done" /\ Entered(s, "sendSupportEmail")
                     /\ response[s].message = RecordedMsg

\* C3: no preview line is written to the stream that carries the protocol
\* responses: under the stdio transport, stdout holds no console.log line.
C3_ChannelIsolation ==
  transport = "stdio" => \A i \in DOMAIN stdout : stdout[i].kind # "console.log"

\* C4: each call enters sendSupportEmail at most once and hands at most one
\* mail to sendMail, whatever the other calls do.
C4_AtMostOneAttempt ==
  \A s \in Subs :
    /\ Count(trace[s], "sendSupportEmail") <= 1
    /\ Count(trace[s], "sendMail") <= 1
    /\ Cardinality(MailsOf(s)) <= 1

\* One call's send failed and was answered while another call's send succeeded.
C4_Witness ==
  \E s, t \in Subs :
    /\ s # t
    /\ pc[s] = "done" /\ Entered(s, "sendMail:failed") /\ Count(trace[s], "sendMail") = 1
    /\ pc[t] = "done" /\ Entered(t, "sendMail:ok")

\* C5: a call whose send failed logs no preview and is not answered success.
C5_FailureNotDowngraded ==
  \A s \in Subs :
    Entered(s, "sendMail:failed") =>
      /\ LoggedBy(s) = {}
      /\ result[s].state = "rejected"
      /\ pc[s] = "done" => response[s].status = "error" /\ response[s].isError

C5_Witness ==
  \E s \in Subs : pc[s] = "done" /\ Entered(s, "sendMail:failed") /\ ~Unconfigured(config)

\* C10: a success response echoes the ticket: name and issue as sent, priority
\* as sent or "Medium" when absent, category as sent or "General Inquiry" when
\* absent, and a timestamp read from the server's clock.
C10_SuccessEchoesTicket ==
  \A s \in Subs :
    (pc[s] = "done" /\ response[s].status = "ok") =>
      LET t == response[s].ticket
          in == request[s]
      IN /\ \A k \in {"name", "issue"} :
              Has(t, k) = Has(in, k) /\ (Has(in, k) => t[k] = in[k])
         /\ Has(t, "priority")
         /\ t["priority"] = (IF Has(in, "priority") THEN in["priority"] ELSE <<"Medium">>)
         /\ Has(t, "category")
         /\ t["category"] = (IF Has(in, "category") THEN in["category"] ELSE <<"General Inquiry">>)
         /\ Has(t, "timestamp")
         /\ \E k \in 0..(now - 1) : t["timestamp"] = ToISOString(k)

\* Answered calls: one without priority and category, one with both empty.
C10_Witness ==
  \E s, t \in Subs :
    /\ pc[s] = "done" /\ response[s].status = "ok"
    /\ ~Has(request[s], "priority") /\ response[s].ticket["priority"] = <<"Medium">>
    /\ ~Has(request[s], "category")
    /\ pc[t] = "done" /\ response[t].status = "ok"
    /\ Has(request[t], "priority") /\ response[t].ticket["priority"] = <<>>

\* The lines call s wrote with console.log, in order
LogOf(s) ==
  LET ByCall(e) == e.kind = "console.log" /\ e.sub = s
  IN SelectSeq(stdout, ByCall)

\* The subjects call s rendered: the preview's third line, the mail's subject
RenderedSubjects(s) ==
  {outbox[i].mail.subject : i \in MailsOf(s)}
    \cup (IF Len(LogOf(s)) >= 3 THEN {SubSeq(LogOf(s)[3].text, 2, Len(LogOf(s)[3].text))} ELSE {})

\* The bodies call s rendered: the preview's fourth line, the mail's text
RenderedBodies(s) ==
  {outbox[i].mail.text : i \in MailsOf(s)}
    \cup (IF Len(LogOf(s)) >= 4 THEN {LogOf(s)[4].text} ELSE {})

\* A required key the arguments lack: name, issue, or a custom field the config
\* declares required
LacksRequired(raw, cfg) ==
  \/ ~Has(raw, "name")
  \/ ~Has(raw, "issue")
  \/ \E i \in DOMAIN cfg.customFields :
       cfg.customFields[i].required /\ ~Has(raw, cfg.customFields[i].key)

\* C6: a call whose arguments lack name, issue or a declared-required custom
\* field is answered with an error payload flagged isError, and neither
\* sendSupportEmail nor buildEmailBody runs for it.
C6_MissingRequiredRejected ==
  \A s \in Subs :
    (pc[s] # "idle" /\ LacksRequired(request[s], config)) =>
      /\ pc[s] = "done"
      /\ response[s].isError
      /\ response[s].status = "error"
      /\ ~Entered(s, "sendSupportEmail")
      /\ ~Entered(s, "buildEmailBody")

\* C7: the input schema holds name and issue as required strings.
C7_NameIssueRequired ==
  \A k \in {"name", "issue"} :
    Has(inputSchema, k) /\ inputSchema[k].type = "string" /\ inputSchema[k].required

RECURSIVE ReplaceEvery(_, _, _)
\* tpl with every {{name}} replaced by name and every {{issue}} by issue, literally
ReplaceEvery(tpl, name, issue) ==
  IF tpl = <<>> THEN <<>>
  ELSE IF Len(tpl) >= Len(NameToken) /\ SubSeq(tpl, 1, Len(NameToken)) = NameToken
    THEN name \o ReplaceEvery(SubSeq(tpl, Len(NameToken) + 1, Len(tpl)), name, issue)
  ELSE IF Len(tpl) >= Len(IssueToken) /\ SubSeq(tpl, 1, Len(IssueToken)) = IssueToken
    THEN issue \o ReplaceEvery(SubSeq(tpl, Len(IssueToken) + 1, Len(tpl)), name, issue)
  ELSE <<Head(tpl)>> \o ReplaceEvery(Tail(tpl), name, issue)

\* C8: every subject a call renders is the template with every {{name}} replaced
\* by the ticket's name and every {{issue}} by the ticket's issue.
C8_SubjectReplacesEveryToken ==
  \A s \in Subs :
    \A subject \in RenderedSubjects(s) :
      subject = ReplaceEvery(config.emailSubjectTemplate, args[s]["name"], args[s]["issue"])

\* C9: the body a call renders holds no label of a custom field whose key the
\* arguments omit, and no custom field's line with an empty value.
C9_NoLineForAbsentField ==
  \A s \in Subs :
    \A body \in RenderedBodies(s) :
      \A i \in DOMAIN config.customFields :
        LET field == config.customFields[i]
        IN /\ ~Has(request[s], field.key) => ~Contains(body, field.label)
           /\ ~Contains(body, field.label \o <<": ", "\n">>)

\* A body was rendered with one custom field omitted, one sent empty, one sent.
C9_Witness ==
  \E s \in Subs :
    \E body \in RenderedBodies(s) :
      \E i, j \in DOMAIN config.customFields :
        /\ ~Has(request[s], config.customFields[i].key)
        /\ Has(request[s], "email") /\ request[s]["email"] = <<>>
        /\ Truthy(request[s], config.customFields[j].key)
        /\ Contains(body, config.customFields[j].label \o <<": ">>
                            \o request[s][config.customFields[j].key])

\* The reply-to of a mail: an absent one and an empty one address nobody
ReplyTo(mail) == IF Has(mail, "replyTo") THEN mail["replyTo"] ELSE <<>>

----------------------------------------------------------------------------
\* One call on a server built from any override of brand, smtp, smtp.auth, the
\* recipient and the three lists

\* An object that sets k to v, or does not set it
Opt(k, v) == {EmptyObj, [x \in {k} |-> v]}

BrandOverrides ==
  {Merge(Merge(n, c), t) : n \in Opt("name", <<"Acme Support">>),
                           c \in Opt("primaryColor", <<"#e11d48">>),
                           t \in Opt("tagline", <<"How can we help today?">>)}

AuthOverrides ==
  {Merge(u, p) : u \in Opt("user", BotUser), p \in Opt("pass", <<"app-password">>)}

SmtpOverrides ==
  {Merge(Merge(Merge(h, p), sc), a) :
     h \in Opt("host", <<"smtp.acme.test">>), p \in Opt("port", 465),
     sc \in Opt("secure", TRUE),
     a \in {EmptyObj} \cup {[auth |-> x] : x \in AuthOverrides}}

ConfigOverrides ==
  {Merge(Merge(Merge(Merge(Merge(b, sm), e), cf), pr), ca) :
     b \in {EmptyObj} \cup {[brand |-> x] : x \in BrandOverrides},
     sm \in {EmptyObj} \cup {[smtp |-> x] : x \in SmtpOverrides},
     e \in Opt("supportEmail", <<"help@mycompany.com">>),
     cf \in Opt("customFields", <<RequiredEmail, PhoneField>>),
     pr \in Opt("priorities", <<"Low", "Medium", "High", "Critical">>),
     ca \in Opt("categories", <<"Sales", "Technical", "Returns", "Other">>)}

InitConfig == \E e \in Envs, ov \in ConfigOverrides : Boot(e, ov, "http")

NextConfig ==
  \/ \E raw \in {[name |-> Ada, issue |-> LoginBroken]} : Call(1, raw)
  \/ TransportSucceeds(1)
  \/ \E err \in Errors : TransportFails(1, err)
  \/ Return(1)

SpecConfig == InitConfig /\ [][NextConfig]_vars

\* obj[k] as the override sets it, else as the default has it
PerKey(default, override, k) == IF Has(override, k) THEN override[k] ELSE default[k]

\* C12: every key of brand, smtp and smtp.auth takes the override's value when
\* the override sets it and keeps the default otherwise; customFields,
\* priorities and categories are the override's list when it gives one (not
\* the default's with it appended) and the default's otherwise.
C12_MergePerKey ==
  LET d == defaultConfig
      ov == configOverrides
      smtp == Sub(ov, "smtp")
  IN /\ DOMAIN config.brand = DOMAIN d.brand \cup DOMAIN Sub(ov, "brand")
     /\ \A k \in DOMAIN config.brand : config.brand[k] = PerKey(d.brand, Sub(ov, "brand"), k)
     /\ \A k \in {"host", "port", "secure"} : config.smtp[k] = PerKey(d.smtp, smtp, k)
     /\ DOMAIN config.smtp.auth = {"user", "pass"}
     /\ \A k \in {"user", "pass"} : config.smtp.auth[k] = PerKey(d.smtp.auth, Sub(smtp, "auth"), k)
     /\ \A k \in {"customFields", "priorities", "categories"} : config[k] = PerKey(d, ov, k)

\* Only brand.name is overridden, and the server built from it answered a call.
C12_Witness ==
  /\ DOMAIN configOverrides = {"brand"}
  /\ DOMAIN configOverrides.brand = {"name"}
  /\ config.brand.name = <<"Acme Support">>
  /\ config.brand.primaryColor = <<"#2563eb">>
  /\ config.smtp = defaultConfig.smtp
  /\ config.smtp.auth.user = BotUser
  /\ pc[1] = "done"

\* C13: the effective config is the one createConfig built from the defaults
\* and the override at createServer, the defaults and the override object are
\* still what they were before createConfig ran, and no step of any
\* interleaving of submissions changes any of the three.
C13_ConfigNeverMutated ==
  /\ [](/\ defaultConfig \in {DefaultConfig(e) : e \in Envs}
        /\ configOverrides \in Overrides
        /\ config = createConfig(defaultConfig, configOverrides)
        /\ inputSchema = buildInputSchema(config))
  /\ [][/\ config' = config
        /\ defaultConfig' = defaultConfig
        /\ configOverrides' = configOverrides]_vars

\* Two submissions have run to their responses on a server built with an
\* override, one sent and one failed, and the config is still the one built.
C13_Witness ==
  /\ configOverrides # EmptyObj
  /\ \E s, t \in Subs :
       /\ pc[s] = "done" /\ Entered(s, "sendMail:ok")
       /\ pc[t] = "done" /\ Entered(t, "sendMail:failed")
  /\ config = createConfig(defaultConfig, configOverrides)

\* C15: every response the handler has produced carries isError exactly when
\* its payload's status is "error", and a ticket echo exactly when its status
\* is "ok".
C15_FlagAndTicketFollowStatus ==
  \A s \in Subs :
    (pc[s] = "done" /\ Entered(s, "sendSupportEmail")) =>
      /\ response[s].status \in {"ok", "error"}
      /\ response[s].isError <=> response[s].status = "error"
      /\ response[s].ticket # EmptyObj <=> response[s].status = "ok"

\* The handler has answered one call with "ok" and another with "error".
C15_Witness ==
  \E s, t \in Subs :
    /\ pc[s] = "done" /\ Entered(s, "sendSupportEmail")
    /\ response[s].status = "ok" /\ Has(response[s].ticket, "timestamp")
    /\ pc[t] = "done" /\ Entered(t, "sendSupportEmail")
    /\ response[t].status = "error" /\ response[t].isError

----------------------------------------------------------------------------
\* The form in front of a server: every call is one the form submitted

UiOverrides == {EmptyObj, [customFields |-> <<RequiredEmail, PhoneField>>]}

InitUi == \E e \in Envs, ov \in UiOverrides : Boot(e, ov, "http")

NextUi ==
  \/ \E v \in {Ada} : setName(v)
  \/ \E v \in {LoginBroken} : setIssue(v)
  \/ \E v \in {<<"High">>} : setPriority(v)
  \/ \E v \in {<<"Billing">>} : setCategory(v)
  \/ \E v \in {<<"ada@example.com">>} : setCustomValues("email", v)
  \/ handleSubmit
  \/ handleReset
  \/ \E s \in Subs :
       \/ TransportSucceeds(s)
       \/ \E err \in Errors : TransportFails(s, err)
       \/ Return(s)
       \/ callServerToolReturns(s)
       \/ \E err \in Errors : callServerToolThrows(s, err)
       \/ ontoolresult(s)

SpecUi == InitUi /\ [][NextUi]_vars

\* The event loop runs the continuation of a callServerTool promise that resolved.
FairSpecUi == SpecUi /\ \A s \in Subs : WF_vars(callServerToolReturns(s))

\* C14: for every call the form has submitted, the custom fields, priorities
\* and categories the form renders are those of the server's effective config,
\* and the submitted arguments carry every custom field that config requires.
C14_FormFollowsServerConfig ==
  \A s \in Subs :
    pc[s] # "idle" =>
      /\ customFields = config.customFields
      /\ priorities = config.priorities
      /\ categories = config.categories
      /\ \A i \in DOMAIN config.customFields :
           config.customFields[i].required => Has(request[s], config.customFields[i].key)

\* What a settled handleSubmit may leave in result: the parsed payload of the
\* call's response, or the error result of the catch block.
SettledResults(s) ==
  (IF pc[s] = "done" THEN {parseToolResult(response[s])} ELSE {})
    \cup {[status |-> "error", message |-> <<"connect ECONNREFUSED">>],
          [status |-> "error", message |-> <<"Submission failed.">>]}

\* C16: submitting is true exactly while a callServerTool started by
\* handleSubmit is in flight; no second call starts while one is in flight;
\* the step in which a call returns or throws sets submitting to false and
\* result to the parsed payload or to the error result of the thrown value;
\* and a call that has returned is eventually taken off with submitting false.
C16_SubmittingWhileInFlight ==
  /\ [](form.submitting <=> awaiting # {})
  /\ [](Cardinality(awaiting) <= 1)
  /\ [][awaiting # {} => awaiting' \subseteq awaiting]_vars
  /\ [][\A s \in awaiting \ awaiting' :
          ~form'.submitting /\ form'.result \in SettledResults(s)]_vars
  /\ \A s \in Subs :
       (s \in awaiting /\ pc[s] = "done") ~> (s \notin awaiting /\ ~form.submitting)

\* A first submission was answered and a second one threw a value that is no
\* Error: nothing is in flight, submitting is false and the result says so.
C16_Witness ==
  /\ pc[1] = "done"
  /\ pc[2] # "idle"
  /\ awaiting = {}
  /\ ~form.submitting
  /\ form.result = [status |-> "error", message |-> <<"Submission failed.">>]

====
